---- MODULE Spec2Model ----
(***************************************************************************)
(* BotProjectDeploy (provisioning and publishing of a bot) as a state      *)
(* machine: create, deploy and createAndDeploy run one awaited step per    *)
(* action; every call to an external service (Azure management, graph,     *)
(* file system) returns one of the results that service can give, a        *)
(* rejection included.                                                      *)
(***************************************************************************)
EXTENDS Integers, Sequences, FiniteSets, TLC

(***************************************************************************)
(* JavaScript values.  A value is a record tagged with its type, so that   *)
(* false, 0, '' and undefined stay distinct and truthiness is computed as  *)
(* the language computes it.                                                *)
(***************************************************************************)
Undefined == [type |-> "undefined"]
JsStr(s) == [type |-> "string", s |-> s]
JsNum(n) == [type |-> "number", n |-> n]
JsBool(b) == [type |-> "boolean", b |-> b]
JsObj(fields) == [type |-> "object", o |-> fields]
EmptyObj == [k \in {} |-> Undefined]

Truthy(v) ==
  CASE v.type = "undefined" -> FALSE
    [] v.type = "boolean" -> v.b
    [] v.type = "number" -> v.n # 0
    [] v.type = "string" -> v.s # ""
    [] OTHER -> TRUE

\* obj[key] of a plain object held as a function: undefined when the key is absent
Get(obj, key) == IF key \in DOMAIN obj THEN obj[key] ELSE Undefined

\* Object.assign(target, source): the keys of source win
Assign(target, source) ==
  [k \in DOMAIN target \cup DOMAIN source |->
     IF k \in DOMAIN source THEN source[k] ELSE target[k]]

\* JSON.stringify followed by the parse of a later read: members whose value
\* is undefined are not written
JsonStringify(obj) == [k \in {j \in DOMAIN obj : obj[j].type # "undefined"} |-> obj[k]]

(***************************************************************************)
(* pack / unpackObject / getDeploymentTemplateParam                         *)
(***************************************************************************)
pack(scope) == [value |-> scope]

unpackObject(output) ==
  [key \in {k \in DOMAIN output : Truthy(output[k].value)} |-> output[key].value]

getDeploymentTemplateParam(id, appPwd, location, name, shouldCreateAuthoringResource) ==
  [appId |-> pack(id),
   appSecret |-> pack(appPwd),
   appServicePlanLocation |-> pack(location),
   botId |-> pack(name),
   shouldCreateAuthoringResource |-> pack(shouldCreateAuthoringResource)]

(***************************************************************************)
(* The inputs of one invocation and the answers of the services             *)
(***************************************************************************)
Names == {"bot1", "mybot"}
Environments == {"dev", "prod"}
Locations == {"westus"}
Passwords == {"", "Passw0rd!"}
AuthoringKeys == {"", "key1"}
Regions == {"", "westus"}

\* ids the identity registration may return
RegisteredIds == {"reg-1", "reg-2"}

\* statuses of the deployment response
DeploymentStatuses == {200, 201, 500}

LuisSection == JsObj([authoringKey |-> JsStr("skey"), endpointKey |-> JsStr("ekey"), region |-> JsStr("westus")])
PublishTargets == JsObj([n0 |-> JsStr("target0")])

\* the documents the settings file may hold before the invocation
OptionalMember(key, values) == {EmptyObj} \cup {[k \in {key} |-> v] : v \in values}
SettingsDocuments ==
  {Assign(Assign(a, l), p) :
     a \in OptionalMember("MicrosoftAppId", {JsStr("app0"), JsStr("")}),
     l \in OptionalMember("luis", {LuisSection}),
     p \in OptionalMember("publishTargets", {PublishTargets})}

NoFile == [exists |-> FALSE, doc |-> EmptyObj]
File(doc) == [exists |-> TRUE, doc |-> doc]

\* properties.outputs of the deployment read back: absent, or a map of
\* {value: X} envelopes, some of which carry a falsy X or shadow a settings key
OutputMaps ==
  {Assign(Assign(a, l), m) :
     a \in OptionalMember("applicationInsights", {pack(JsStr("ikey")), pack(JsStr(""))}),
     l \in OptionalMember("luis", {pack(JsObj([endpointKey |-> JsStr("okey")]))}),
     m \in OptionalMember("MicrosoftAppId", {pack(JsStr("template-app"))})}
NoOutputs == [present |-> FALSE, outputs |-> EmptyObj]
DeploymentOutputs == {NoOutputs} \cup {[present |-> TRUE, outputs |-> o] : o \in OutputMaps}

VARIABLES
  args,                    \* the arguments of the invocation
  caller,                  \* the public operation invoked: create, deploy, createAndDeploy
  pc,                      \* the awaited step the invocation is at
  now,                     \* new Date().getTime()
  settingsFile,            \* the file at this.settingsPath
  settingsBefore,          \* the file at this.settingsPath as the invocation found it
  appId,                   \* create: let appId
  resourceGroupName,       \* create: const resourceGroupName
  timeStamp,               \* create: const timeStamp
  deploymentTemplateParam, \* create: const deploymentTemplateParam
  validation,              \* create: const validation
  deployment,              \* create: deployment._response.status
  outputs,                 \* updateDeploymentJsonFile: properties.outputs of the deployment read back
  updateResult,            \* create: const updateResult
  createResult,            \* how create ended: [state, value]
  outcome,                 \* how the public operation ended for its caller
  calls,                   \* the external calls issued, in order
  log,                     \* the events handed to this.logger and console.log
  groups,                  \* the resource groups that exist in the subscription
  deployFile,              \* the file at this.deployFilePath
  zipFile,                 \* the file at this.zipPath
  published,               \* whether dotnet publish has filled this.publishFolder
  copy,                    \* the copy of the declarative assets into the publish folder
  deploymentSettingsFile,  \* the file at this.deploymentSettingsPath
  luisAuthoringKey,        \* deploy: luisAuthoringKey after defaulting
  luisAuthoringRegion,     \* deploy: luisAuthoringRegion after defaulting
  luisEndpointKey,         \* deploy: let luisEndpointKey
  language,                \* deploy: language after defaulting
  luisAppIds,              \* deploy: const luisAppIds
  account,                 \* deploy: const account
  toAssign,                \* deploy: the keys of luisAppIds the for-in loop has yet to visit
  publishingUser,          \* the publishing credentials of the hosting account
  uploaded,                \* the archives the hosting endpoint has received
  caught,                  \* deploy: the step whose exception the catch clause printed
  deployResult,            \* how deploy ended
  packInput,               \* a map of values handed to pack, member by member
  packed,                  \* the map of their {value: X} envelopes
  unpacked,                \* what unpackObject makes of the envelopes
  packPc                   \* the step of the wrap and unwrap

VARIABLES
  botPublishHistoryList,   \* Publish: the history of each (bot, target), most recent first
  botStatusList,           \* Publish: the rows displayed, one per bot
  selectedBots,            \* Publish: the rows selected, as updateSelectedBots copied them
  shared,                  \* the bots whose displayed row is the object of their selected row
  showNotifications,       \* Publish: whether a completion notification is due for a bot
  pendingNotification,     \* Publish: the id of the pending notification, 0 before a publish
  notifications,           \* the cards handed to addNotification, in order
  timers,                  \* the callbacks handed to setTimeout and not yet run, oldest first
  statusFetches,           \* how often getPublishStatus was called for a (bot, target)
  lastPublished,           \* whether the rows' copy of a target carries lastPublished
  clock,                   \* milliseconds since the page was mounted
  effectPending,           \* whether a dependency of the history effect has changed
  publishing,              \* whether a call of publish is waiting for its requests
  inputs                   \* how many changes of data and user actions the page has taken

pollerState == <<botPublishHistoryList, botStatusList, selectedBots, shared, showNotifications,
                 pendingNotification, notifications, timers, statusFetches, lastPublished,
                 clock, effectPending, publishing, inputs>>

deployLocals == <<luisAuthoringKey, luisAuthoringRegion, luisEndpointKey, language,
                  luisAppIds, account, toAssign>>
deployFiles == <<deployFile, zipFile, published, copy, deploymentSettingsFile>>
deployState == <<deployFile, zipFile, published, copy, deploymentSettingsFile,
                 luisAuthoringKey, luisAuthoringRegion, luisEndpointKey, language,
                 luisAppIds, account, toAssign, publishingUser, uploaded, caught, deployResult>>
packState == <<packInput, packed, unpacked, packPc>>
vars == <<args, caller, pc, now, settingsFile, settingsBefore, appId, resourceGroupName, timeStamp,
          deploymentTemplateParam, validation, deployment, outputs, updateResult, createResult,
          outcome, calls, log, groups, deployFile, zipFile, published, copy,
          deploymentSettingsFile, luisAuthoringKey, luisAuthoringRegion, luisEndpointKey,
          language, luisAppIds, account, toAssign, publishingUser, uploaded, caught,
          deployResult, packInput, packed, unpacked, packPc, pollerState>>
createState == <<settingsBefore, appId, resourceGroupName, timeStamp, deploymentTemplateParam,
                 validation, deployment, outputs, updateResult, createResult, groups>>

Running == [state |-> "running", value |-> Undefined]
NotCalled == [state |-> "notCalled", value |-> Undefined]
Returned(v) == [state |-> "returned", value |-> v]
Thrown == [state |-> "thrown", value |-> Undefined]

Logged(status, message) == Append(log, [status |-> status, message |-> message])
Called(call) == Append(calls, call)

\* the operator is told nothing
DeleteHint_none(rg) == ""

DeleteHint(rg) == "+ To delete this resource group, run 'az group delete -g " \o rg \o " --no-wait'"

(***************************************************************************)
(* How create hands control back.  Under createAndDeploy a normal return   *)
(* of create is followed by deploy, and a rejection is caught, printed and *)
(* thrown again.                                                            *)
(***************************************************************************)
\* deploy runs only after a create that returned true
createReturns_skipsOnFalse(value, lg) ==
  /\ createResult' = Returned(value)
  /\ log' = lg
  /\ IF caller = "createAndDeploy" /\ value = JsBool(TRUE)
       THEN pc' = "deploy" /\ outcome' = outcome
       ELSE pc' = "done" /\ outcome' = Returned(value)

createReturns(value, lg) ==
  /\ createResult' = Returned(value)
  /\ log' = lg
  /\ IF caller = "createAndDeploy"
       THEN pc' = "deploy" /\ outcome' = outcome
       ELSE pc' = "done" /\ outcome' = Returned(value)

createThrows(lg) ==
  /\ createResult' = Thrown
  /\ pc' = "done"
  /\ outcome' = Thrown
  /\ log' = IF caller = "createAndDeploy"
              THEN Append(lg, [status |-> "console.log", message |-> "er"])
              ELSE lg

resourceGroupNameOf_noDash(name, environment) == name \o environment

resourceGroupNameOf(name, environment) == name \o "-" \o environment

(***************************************************************************)
(* create                                                                   *)
(***************************************************************************)
settingsFileMissing_never(file) == FALSE

settingsFileMissing(file) == ~file.exists

\* an application is registered whatever the settings hold
appIdMissing_always(id) == TRUE

\* the settings name no application
appIdMissing(id) == ~Truthy(id)

\* the settings file is looked for and read, the application id is taken
\* from it, and a missing password ends the invocation
create_readSettings ==
  /\ pc = "create"
  /\ UNCHANGED <<deployState, packState, pollerState, settingsBefore>>
  /\ UNCHANGED <<args, caller, now, settingsFile, resourceGroupName, timeStamp,
                 deploymentTemplateParam, validation, deployment, outputs, updateResult, groups>>
  /\ IF settingsFileMissing(settingsFile)
       THEN /\ createReturns(Undefined,
                 Logged("PROVISION_INFO",
                        "! Could not find an 'appsettings.deployment.json' file in the current directory."))
            /\ UNCHANGED <<appId, calls>>
       ELSE \/ /\ calls' = Called([op |-> "fs.readJson", path |-> "settingsPath"])
               /\ createThrows(log)
               /\ UNCHANGED appId
            \/ /\ calls' = Called([op |-> "fs.readJson", path |-> "settingsPath"])
               /\ appId' = Get(settingsFile.doc, "MicrosoftAppId")
               /\ IF appIdMissing(appId')
                    THEN IF ~Truthy(JsStr(args.appPassword))
                           THEN createReturns(Undefined,
                                  Logged("PROVISION_INFO", "App password is required"))
                           ELSE /\ log' = Logged("PROVISION_INFO", "> Creating App Registration ...")
                                /\ pc' = "createApp"
                                /\ UNCHANGED <<createResult, outcome>>
                    ELSE /\ pc' = "createResourceGroup"
                         /\ UNCHANGED <<createResult, outcome, log>>

\* the application registration
create_createApp ==
  /\ pc = "createApp"
  /\ UNCHANGED <<deployState, packState, pollerState, settingsBefore>>
  /\ now' = now + 1
  /\ calls' = Called([op |-> "applications.create", displayName |-> args.name,
                      password |-> args.appPassword])
  /\ UNCHANGED <<args, caller, settingsFile, resourceGroupName, timeStamp,
                 deploymentTemplateParam, validation, deployment, outputs, updateResult, groups>>
  /\ \/ createThrows(log) /\ UNCHANGED appId
     \/ \E id \in RegisteredIds :
          /\ appId' = JsStr(id)
          /\ log' = Logged("PROVISION_INFO", "appCreated")
          /\ pc' = "createResourceGroup"
          /\ UNCHANGED <<createResult, outcome>>

\* the resource group, named after the bot and the environment
create_createResourceGroup ==
  /\ pc = "createResourceGroup"
  /\ UNCHANGED <<deployState, packState, pollerState, settingsBefore>>
  /\ resourceGroupName' = resourceGroupNameOf(args.name, args.environment)
  /\ timeStamp' = now
  /\ now' = now + 1
  /\ calls' = Called([op |-> "resourceGroups.createOrUpdate",
                      resourceGroupName |-> resourceGroupName', location |-> args.location])
  /\ UNCHANGED <<args, caller, settingsFile, appId, deploymentTemplateParam, validation,
                 deployment, outputs, updateResult>>
  /\ LET lg == Append(Logged("PROVISION_INFO", "> Create App Id Success! ID: " \o appId.s),
                      [status |-> "PROVISION_INFO", message |-> "> Creating resource group ..."])
     IN \/ createThrows(lg) /\ UNCHANGED groups
        \/ /\ groups' = groups \cup {resourceGroupName'}
           /\ log' = Append(lg, [status |-> "PROVISION_INFO", message |-> "rpres"])
           /\ pc' = "validateDeployment"
           /\ UNCHANGED <<createResult, outcome>>

\* what validate answers in its error member
ValidationErrors == {Undefined, JsObj([message |-> JsStr("InvalidTemplate")])}

validationHasError_never(error) == FALSE

validationHasError(error) == Truthy(error)

\* the template is validated against the wrapped parameters
create_validateDeployment ==
  /\ pc = "validateDeployment"
  /\ UNCHANGED <<deployState, packState, pollerState, settingsBefore>>
  /\ deploymentTemplateParam' =
       getDeploymentTemplateParam(appId, JsStr(args.appPassword), JsStr(args.location),
                                  JsStr(args.name), JsBool(~Truthy(JsStr(args.luisAuthoringKey))))
  /\ now' = now + 1
  /\ calls' = Called([op |-> "deployments.validate", resourceGroupName |-> resourceGroupName,
                      deployName |-> timeStamp, parameters |-> deploymentTemplateParam',
                      mode |-> "Incremental"])
  /\ UNCHANGED <<args, caller, settingsFile, appId, resourceGroupName, timeStamp,
                 deployment, outputs, updateResult, groups>>
  /\ LET lg == Append(Logged("PROVISION_INFO", "deploymentTemplateParam"),
                      [status |-> "PROVISION_INFO", message |-> "> Validating Azure deployment ..."])
     IN \/ createThrows(lg) /\ UNCHANGED validation
        \/ \E error \in ValidationErrors :
             /\ validation' = error
             /\ IF validationHasError(error)
                  THEN createReturns(JsBool(FALSE),
                         lg \o <<[status |-> "PROVISION_INFO", message |-> "validation"],
                                 [status |-> "PROVISION_ERROR",
                                  message |-> "! Template is not valid with provided parameters. Review the log for more information."],
                                 [status |-> "PROVISION_ERROR", message |-> "! Error: " \o error.o.message.s],
                                 [status |-> "PROVISION_ERROR", message |-> DeleteHint(resourceGroupName)]>>)
                  ELSE /\ log' = Append(lg, [status |-> "PROVISION_INFO", message |-> "validation"])
                       /\ pc' = "createDeployment"
                       /\ UNCHANGED <<createResult, outcome>>

deploymentFailed_from400(status) == status >= 400

deploymentFailed_anyBut2xx(status) == status \notin {200, 201}

deploymentFailed(status) == status # 200

\* the template is deployed; any status but 200 ends the invocation
create_createDeployment ==
  /\ pc = "createDeployment"
  /\ UNCHANGED <<deployState, packState, pollerState, settingsBefore>>
  /\ now' = now + 1
  /\ calls' = Called([op |-> "deployments.createOrUpdate", resourceGroupName |-> resourceGroupName,
                      deployName |-> timeStamp,
                      parameters |-> deploymentTemplateParam, mode |-> "Incremental"])
  /\ UNCHANGED <<args, caller, settingsFile, appId, resourceGroupName, timeStamp,
                 deploymentTemplateParam, validation, outputs, updateResult, groups>>
  /\ LET lg == Logged("PROVISION_INFO", "> Deploying Azure services (this could take a while)...")
     IN \/ createThrows(lg) /\ UNCHANGED deployment
        \/ \E status \in DeploymentStatuses :
             /\ deployment' = status
             /\ IF deploymentFailed(status)
                  THEN createReturns(JsBool(FALSE),
                         lg \o <<[status |-> "PROVISION_INFO", message |-> "deployment"],
                                 [status |-> "PROVISION_ERROR",
                                  message |-> "! Template is not valid with provided parameters. Review the log for more information."],
                                 [status |-> "PROVISION_ERROR", message |-> "! Error: undefined"],
                                 [status |-> "PROVISION_ERROR", message |-> DeleteHint(resourceGroupName)]>>)
                  ELSE /\ log' = Append(lg, [status |-> "PROVISION_INFO", message |-> "deployment"])
                       /\ pc' = "updateDeploymentJsonFile"
                       /\ UNCHANGED <<createResult, outcome>>

\* the document updateDeploymentJsonFile builds from the outputs and the identity
settingsResult_outputsWin(outputResult, id, appPwd) ==
  Assign([MicrosoftAppId |-> id, MicrosoftAppPassword |-> appPwd], unpackObject(outputResult))

settingsResult(outputResult, id, appPwd) ==
  Assign(unpackObject(outputResult), [MicrosoftAppId |-> id, MicrosoftAppPassword |-> appPwd])

\* the outputs of the deployment are read back and written, with the identity,
\* over the settings file; a deployment without outputs writes nothing
create_updateDeploymentJsonFile ==
  /\ pc = "updateDeploymentJsonFile"
  /\ UNCHANGED <<deployState, packState, pollerState, settingsBefore>>
  /\ now' = now + 1
  /\ UNCHANGED <<args, caller, appId, resourceGroupName, timeStamp, deploymentTemplateParam,
                 validation, deployment, groups>>
  /\ LET get == [op |-> "deployments.get", resourceGroupName |-> resourceGroupName,
                 deployName |-> timeStamp]
     IN \/ /\ calls' = Called(get)
           /\ createThrows(log)
           /\ UNCHANGED <<settingsFile, outputs, updateResult>>
        \/ \E got \in DeploymentOutputs :
           /\ outputs' = got
           /\ IF got.present
               THEN LET result == settingsResult(got.outputs, appId, JsStr(args.appPassword))
                        write == [op |-> "fs.writeFile", path |-> "settingsPath",
                                  data |-> JsonStringify(result)]
                    IN /\ calls' = calls \o <<get, write>>
                       /\ \/ /\ createThrows(log)
                             /\ UNCHANGED <<settingsFile, updateResult>>
                          \/ /\ settingsFile' = File(JsonStringify(result))
                             /\ updateResult' = JsObj(result)
                             /\ log' = Logged("PROVISION_INFO", "updateResult")
                             /\ pc' = "createFinish"
                             /\ UNCHANGED <<createResult, outcome>>
               ELSE /\ calls' = Called(get)
                    /\ updateResult' = JsObj(EmptyObj)
                    /\ log' = Logged("PROVISION_INFO", "updateResult")
                    /\ pc' = "createFinish"
                    /\ UNCHANGED <<settingsFile, createResult, outcome>>

\* the operations of a deployment, each with the code of its error ("" for none)
OperationLists == {<<>>, <<"MissingRegistrationForLocation">>, <<"Conflict", "">>}

RECURSIVE diagnosticsOf(_)
diagnosticsOf(operations) ==
  IF operations = <<>> THEN <<>>
  ELSE LET code == Head(operations)
       IN (IF code = "MissingRegistrationForLocation"
             THEN <<[status |-> "PROVISION_ERROR",
                     message |-> "! Deployment failed for resource. This resource is not avaliable in the location provided."]>>
             ELSE <<[status |-> "PROVISION_ERROR", message |-> "! Deployment failed for resource."],
                    [status |-> "PROVISION_ERROR", message |-> "! Code: " \o code \o "."],
                    [status |-> "PROVISION_ERROR", message |-> "! Message: ."]>>)
          \o diagnosticsOf(Tail(operations))

\* a falsy update result has the operations of the deployment listed and the
\* failed ones reported; create then returns true
create_finish ==
  /\ pc = "createFinish"
  /\ UNCHANGED <<deployState, packState, pollerState, settingsBefore>>
  /\ UNCHANGED <<args, caller, settingsFile, appId, resourceGroupName, timeStamp,
                 deploymentTemplateParam, validation, deployment, outputs, updateResult, groups>>
  /\ LET success == [status |-> "PROVISION_SUCCESS", message |-> DeleteHint(resourceGroupName)]
     IN IF ~Truthy(updateResult)
          THEN /\ now' = now + 1
               /\ calls' = Called([op |-> "deploymentOperations.list",
                                   resourceGroupName |-> resourceGroupName, deployName |-> timeStamp])
               /\ \/ createThrows(log)
                  \/ \E operations \in OperationLists :
                       createReturns(JsBool(TRUE),
                         log \o diagnosticsOf(SelectSeq(operations, LAMBDA code : code # ""))
                             \o <<success>>)
          ELSE /\ createReturns(JsBool(TRUE), Append(log, success))
               /\ UNCHANGED <<now, calls>>

(***************************************************************************)
(* deploy                                                                   *)
(***************************************************************************)
\* the catch clause of deploy: the error is printed and deploy returns
\* the catch clause throwing the error on after printing it
deployCatches_rethrows(step, lg) ==
  /\ caught' = step
  /\ log' = Append(lg, [status |-> "console.log", message |-> "error"])
  /\ deployResult' = Thrown
  /\ outcome' = Thrown
  /\ pc' = "done"

\* the success event logged after the try statement instead of inside it
deployCatches_thenSuccess(step, lg) ==
  /\ caught' = step
  /\ log' = lg \o <<[status |-> "console.log", message |-> "error"],
                     [status |-> "DEPLOY_SUCCESS", message |-> "Publish To Azure Success!"]>>
  /\ deployResult' = Returned(Undefined)
  /\ outcome' = Returned(Undefined)
  /\ pc' = "done"

deployCatches(step, lg) ==
  /\ caught' = step
  /\ log' = Append(lg, [status |-> "console.log", message |-> "error"])
  /\ deployResult' = Returned(Undefined)
  /\ outcome' = Returned(Undefined)
  /\ pc' = "done"

DeploymentDescriptor == "[config]\nproject = BotProject.csproj"

\* the deployment descriptor is written when it is missing
deploy_botPrepareDeploy ==
  /\ pc = "deploy"
  /\ UNCHANGED <<packState, pollerState>>
  /\ UNCHANGED <<args, caller, now, settingsFile, createState, zipFile, published, copy,
                 deploymentSettingsFile, deployLocals, publishingUser, uploaded>>
  /\ IF ~deployFile.exists
       THEN /\ calls' = Called([op |-> "fs.writeFile", path |-> "deployFilePath",
                                data |-> DeploymentDescriptor])
            /\ \/ deployCatches("botPrepareDeploy", log) /\ UNCHANGED deployFile
               \/ /\ deployFile' = [exists |-> TRUE, data |-> DeploymentDescriptor]
                  /\ pc' = "removeZip"
                  /\ UNCHANGED <<log, caught, deployResult, outcome>>
       ELSE /\ pc' = "removeZip"
            /\ UNCHANGED <<calls, deployFile, log, caught, deployResult, outcome>>

NoArchive == [exists |-> FALSE, from |-> "", assets |-> ""]

\* an archive left at the archive path stays there
deploy_removeZip_skips ==
  /\ pc = "removeZip"
  /\ pc' = "dotnetPublish"
  /\ UNCHANGED <<packState, pollerState>>
  /\ UNCHANGED <<args, caller, now, settingsFile, createState, deployFile, published, copy,
                 deploymentSettingsFile, deployLocals, publishingUser, uploaded>>
  /\ UNCHANGED <<calls, zipFile, log, caught, deployResult, outcome>>

\* an archive left at the archive path is removed
deploy_removeZip ==
  /\ pc = "removeZip"
  /\ UNCHANGED <<packState, pollerState>>
  /\ UNCHANGED <<args, caller, now, settingsFile, createState, deployFile, published, copy,
                 deploymentSettingsFile, deployLocals, publishingUser, uploaded>>
  /\ IF zipFile.exists
       THEN /\ calls' = Called([op |-> "fs.remove", path |-> "zipPath"])
            /\ \/ deployCatches("remove", log) /\ UNCHANGED zipFile
               \/ /\ zipFile' = NoArchive
                  /\ pc' = "dotnetPublish"
                  /\ UNCHANGED <<log, caught, deployResult, outcome>>
       ELSE /\ pc' = "dotnetPublish"
            /\ UNCHANGED <<calls, zipFile, log, caught, deployResult, outcome>>

\* the documents dotnet publish may leave at the deployment settings path
DeploymentSettingsDocuments ==
  {Assign(l, [MicrosoftAppId |-> JsStr("app0"), feature |-> JsBool(FALSE)]) :
     l \in OptionalMember("luis", {LuisSection})}

\* the project is built into the publish folder, then the copy of the
\* declarative assets is started; dotnetPublish resolves without waiting for it
deploy_dotnetPublish ==
  /\ pc = "dotnetPublish"
  /\ UNCHANGED <<packState, pollerState>>
  /\ now' = now + 1
  /\ calls' = Called([op |-> "exec", command |-> "dotnet publish"])
  /\ UNCHANGED <<args, caller, settingsFile, createState, deployFile, zipFile, deployLocals,
                 publishingUser, uploaded>>
  /\ \/ /\ deployCatches("dotnetPublish", log)
        /\ UNCHANGED <<published, copy, deploymentSettingsFile>>
     \/ /\ published' = TRUE
        /\ \E file \in {deploymentSettingsFile} \cup {File(d) : d \in DeploymentSettingsDocuments} :
             deploymentSettingsFile' = file
        /\ copy' = [state |-> "inFlight",
                    source |-> IF Truthy(JsStr(args.botPath)) THEN args.botPath ELSE "projPath"]
        /\ log' = IF Truthy(JsStr(args.botPath))
                    THEN Logged("DEPLOY_INFO", "Publishing dialogs from external bot project: " \o args.botPath)
                    ELSE log
        /\ pc' = "readSettings"
        /\ UNCHANGED <<caught, deployResult, outcome>>

\* the copy started by dotnetPublish ends, at a time of its own; its error
\* reaches a promise that is already resolved
fs_copyEnds ==
  /\ copy.state = "inFlight"
  /\ UNCHANGED <<packState, pollerState>>
  /\ \E state \in {"finished", "failed"} : copy' = [copy EXCEPT !.state = state]
  /\ UNCHANGED <<args, caller, pc, now, settingsFile, createState, outcome, calls, log,
                 deployFile, zipFile, published, deploymentSettingsFile, deployLocals,
                 publishingUser, uploaded, caught, deployResult>>

\* a member of a value: reading one of undefined throws a TypeError
Member(v, key) == IF v.type = "object" THEN Get(v.o, key) ELSE Undefined

\* the sub-flow run whenever an authoring key is known
luisWanted_keyOnly(key, region) == Truthy(key)

\* the language-model sub-flow is run when both the key and the region are known
luisWanted(key, region) == Truthy(key) /\ Truthy(region)

\* the endpoint key of the settings file, whatever was passed
luisEndpointKeyOf_settings(keyArg, luisSettings) == Member(luisSettings, "endpointKey")

\* let luisEndpointKey = '', replaced by the one of the settings file only
\* when no authoring key was passed
luisEndpointKeyOf(keyArg, luisSettings) ==
  IF ~Truthy(keyArg) THEN Member(luisSettings, "endpointKey") ELSE JsStr("")

\* the settings file is read and the language-model arguments that were not
\* passed are taken from its luis section
deploy_readSettings ==
  /\ pc = "readSettings"
  /\ UNCHANGED <<packState, pollerState>>
  /\ calls' = Called([op |-> "fs.readJSON", path |-> "settingsPath"])
  /\ UNCHANGED <<args, caller, now, settingsFile, createState, deployFiles, luisAppIds,
                 account, toAssign, publishingUser, uploaded>>
  /\ LET luisSettings == Get(settingsFile.doc, "luis")
         keyArg == JsStr(args.luisAuthoringKey)
         regionArg == JsStr(args.luisAuthoringRegion)
         typeError == (~Truthy(keyArg) \/ ~Truthy(regionArg)) /\ luisSettings.type = "undefined"
     IN IF ~settingsFile.exists \/ typeError
          THEN /\ deployCatches("readSettings", log)
               /\ UNCHANGED <<luisAuthoringKey, luisAuthoringRegion, luisEndpointKey, language>>
          ELSE /\ luisAuthoringKey' =
                    IF ~Truthy(keyArg) THEN Member(luisSettings, "authoringKey") ELSE keyArg
               /\ luisEndpointKey' = luisEndpointKeyOf(keyArg, luisSettings)
               /\ luisAuthoringRegion' =
                    IF ~Truthy(regionArg) THEN Member(luisSettings, "region") ELSE regionArg
               /\ language' = IF ~Truthy(JsStr(args.language)) THEN "en-us" ELSE args.language
               /\ IF luisWanted(luisAuthoringKey', luisAuthoringRegion')
                    THEN pc' = "luis_getFiles" /\ log' = log
                    ELSE /\ pc' = "zipDirectory"
                         /\ log' = Logged("DEPLOY_INFO", "Packing up the bot service ...")
               /\ UNCHANGED <<caught, deployResult, outcome>>

(***************************************************************************)
(* deploy: the language-model sub-flow                                      *)
(***************************************************************************)
\* one awaited call of the sub-flow that changes nothing deploy reads later
luisStep(at, call, next) ==
  /\ pc = at
  /\ UNCHANGED <<packState, pollerState>>
  /\ now' = now + 1
  /\ calls' = Called(call)
  /\ UNCHANGED <<args, caller, settingsFile, createState, deployFiles, deployLocals,
                 publishingUser, uploaded>>
  /\ \/ deployCatches(call.op, log)
     \/ /\ pc' = next
        /\ UNCHANGED <<log, caught, deployResult, outcome>>

\* the model files are enumerated under the deployed assets folder
luis_getFiles ==
  luisStep("luis_getFiles", [op |-> "getFiles", path |-> "remoteBotPath", copy |-> copy.state],
           "luis_loadContents")

luis_loadContents ==
  luisStep("luis_loadContents",
           [op |-> "builder.loadContents", language |-> language, environment |-> args.environment,
            region |-> luisAuthoringRegion], "luis_build")

luis_build ==
  luisStep("luis_build",
           [op |-> "builder.build", authoringKey |-> luisAuthoringKey, region |-> luisAuthoringRegion,
            name |-> args.name, environment |-> args.environment, language |-> language],
           "luis_writeDialogAssets")

luis_writeDialogAssets ==
  /\ luisStep("luis_writeDialogAssets",
              [op |-> "builder.writeDialogAssets", path |-> "generatedFolder"], "luis_readConfigs")

\* the application ids the luis.settings files of the assets folder may hold
AppIdMaps == {EmptyObj, [a |-> JsStr("id-a")], [a |-> JsStr("id-a"), b |-> JsStr("id-b")]}
AppIdOrder == <<"a", "b">>

\* the per-model settings files are read and their application ids merged
luis_readConfigs ==
  /\ pc = "luis_readConfigs"
  /\ UNCHANGED <<packState, pollerState>>
  /\ now' = now + 1
  /\ calls' = Called([op |-> "getFiles", path |-> "remoteBotPath", copy |-> copy.state])
  /\ UNCHANGED <<args, caller, settingsFile, createState, deployFiles, luisAuthoringKey,
                 luisAuthoringRegion, luisEndpointKey, language, account, toAssign,
                 publishingUser, uploaded>>
  /\ \/ deployCatches("readConfigs", Logged("DEPLOY_INFO", "lubuild succeed"))
        /\ UNCHANGED luisAppIds
     \/ /\ \E ids \in AppIdMaps : luisAppIds' = ids
        /\ log' = Logged("DEPLOY_INFO", "lubuild succeed")
        /\ pc' = "luis_updateSettings"
        /\ UNCHANGED <<caught, deployResult, outcome>>

luisEndpointOf(region) == "https://" \o region \o ".api.cognitive.microsoft.com"

luisConfigOf(region, endpointKey, appIds) ==
  Assign([endpoint |-> JsStr(luisEndpointOf(region)), endpointKey |-> endpointKey], appIds)

\* the document holding the luis section alone
withLuis_alone(settings, luisConfig) == [luis |-> JsObj(JsonStringify(luisConfig))]

\* settings.luis = luisConfig, as the document reads once written
withLuis(settings, luisConfig) ==
  JsonStringify(Assign(settings, [luis |-> JsObj(JsonStringify(luisConfig))]))

\* the deployment settings are read, their luis member replaced, and written back
luis_updateSettings ==
  /\ pc = "luis_updateSettings"
  /\ UNCHANGED <<packState, pollerState>>
  /\ now' = now + 1
  /\ UNCHANGED <<args, caller, settingsFile, createState, deployFile, zipFile, published, copy,
                 deployLocals, publishingUser, uploaded>>
  /\ LET read == [op |-> "fs.readJson", path |-> "deploymentSettingsPath"]
         document == withLuis(deploymentSettingsFile.doc,
                              luisConfigOf(luisAuthoringRegion.s, luisEndpointKey, luisAppIds))
         write == [op |-> "fs.writeJson", path |-> "deploymentSettingsPath", data |-> document]
     IN IF ~deploymentSettingsFile.exists
          THEN /\ calls' = Called(read)
               /\ deployCatches("readJson", log)
               /\ UNCHANGED deploymentSettingsFile
          ELSE /\ calls' = calls \o <<read, write>>
               /\ \/ deployCatches("writeJson", log) /\ UNCHANGED deploymentSettingsFile
                  \/ /\ deploymentSettingsFile' = File(document)
                     /\ pc' = "luis_getAccount"
                     /\ UNCHANGED <<log, caught, deployResult, outcome>>

Account(accountName) == JsObj([AccountName |-> JsStr(accountName)])

\* the account lists the authoring service may answer
AccountLists(wanted) ==
  {<<>>, <<Account("other")>>, <<Account(wanted)>>, <<Account("other"), Account(wanted)>>}

\* the first account stands in when none carries the name
getAccount_orFirst(accounts, filter) ==
  IF \E i \in DOMAIN accounts : accounts[i].o.AccountName = JsStr(filter)
    THEN CHOOSE found \in {accounts[i] : i \in DOMAIN accounts} :
           found.o.AccountName = JsStr(filter)
    ELSE IF accounts = <<>> THEN Undefined ELSE Head(accounts)

RECURSIVE getAccount(_, _)
getAccount(accounts, filter) ==
  IF accounts = <<>> THEN Undefined
  ELSE IF Head(accounts).o.AccountName = JsStr(filter) THEN Head(accounts)
  ELSE getAccount(Tail(accounts), filter)

\* the accounts of the authoring resource are fetched and the bot's one selected
luis_getAccount ==
  /\ pc = "luis_getAccount"
  /\ UNCHANGED <<packState, pollerState>>
  /\ now' = now + 1
  /\ UNCHANGED <<args, caller, settingsFile, createState, deployFiles, luisAuthoringKey,
                 luisAuthoringRegion, luisEndpointKey, language, luisAppIds,
                 publishingUser, uploaded>>
  /\ LET get == [op |-> "rp.get",
                 uri |-> luisEndpointOf(luisAuthoringRegion.s) \o "/luis/api/v2.0/azureaccounts",
                 subscriptionKey |-> luisAuthoringKey]
     IN
     \/ calls' = Called(get) /\ deployCatches("rp.get", log) /\ UNCHANGED <<account, toAssign>>
     \/ \E jsonRes \in AccountLists(args.name \o "-" \o args.environment \o "-luis") :
          /\ calls' = Called(get @@ [response |-> jsonRes])
          /\ account' = getAccount(jsonRes, args.name \o "-" \o args.environment \o "-luis")
          /\ toAssign' = SelectSeq(AppIdOrder, LAMBDA k : k \in DOMAIN luisAppIds)
          /\ IF toAssign' = <<>>
               THEN /\ pc' = "zipDirectory"
                    /\ log' = log \o <<[status |-> "DEPLOY_INFO", message |-> "Luis Publish Success! ..."],
                                       [status |-> "DEPLOY_INFO", message |-> "Packing up the bot service ..."]>>
               ELSE pc' = "luis_assign" /\ log' = log
          /\ UNCHANGED <<caught, deployResult, outcome>>

\* every application is assigned at the same address
luisAssignEndpoint_noId(luisEndpoint, luisAppId) ==
  luisEndpoint \o "/luis/api/v2.0/apps/azureaccounts"

luisAssignEndpoint(luisEndpoint, luisAppId) ==
  luisEndpoint \o "/luis/api/v2.0/apps/" \o luisAppId \o "/azureaccounts"

\* one pass of the loop: the account is bound to the next application id
luis_assign ==
  /\ pc = "luis_assign"
  /\ UNCHANGED <<packState, pollerState>>
  /\ now' = now + 1
  /\ calls' = Called([op |-> "rp.post",
                      uri |-> luisAssignEndpoint(luisEndpointOf(luisAuthoringRegion.s),
                                                 luisAppIds[Head(toAssign)].s),
                      body |-> account, subscriptionKey |-> luisAuthoringKey])
  /\ UNCHANGED <<args, caller, settingsFile, createState, deployFiles, luisAuthoringKey,
                 luisAuthoringRegion, luisEndpointKey, language, luisAppIds, account,
                 publishingUser, uploaded>>
  /\ LET lg == Logged("DEPLOY_INFO", "Assigning to luis app id: [object Object]")
     IN \/ deployCatches("rp.post", lg) /\ UNCHANGED toAssign
        \/ /\ toAssign' = Tail(toAssign)
           /\ IF toAssign' = <<>>
                THEN /\ pc' = "zipDirectory"
                     /\ log' = lg \o <<[status |-> "DEPLOY_INFO", message |-> "response"],
                                       [status |-> "DEPLOY_INFO", message |-> "Luis Publish Success! ..."],
                                       [status |-> "DEPLOY_INFO", message |-> "Packing up the bot service ..."]>>
                ELSE /\ pc' = "luis_assign"
                     /\ log' = Append(lg, [status |-> "DEPLOY_INFO", message |-> "response"])
           /\ UNCHANGED <<caught, deployResult, outcome>>

(***************************************************************************)
(* deploy: the archive and its upload                                       *)
(***************************************************************************)
\* the publish folder is packed into the archive
deploy_zipDirectory ==
  /\ pc = "zipDirectory"
  /\ UNCHANGED <<packState, pollerState>>
  /\ now' = now + 1
  /\ calls' = Called([op |-> "zipDirectory", source |-> "publishFolder", out |-> "zipPath",
                      copy |-> copy.state])
  /\ UNCHANGED <<args, caller, settingsFile, createState, deployFile, published, copy,
                 deploymentSettingsFile, deployLocals, publishingUser, uploaded>>
  /\ \/ deployCatches("zipDirectory", log) /\ UNCHANGED zipFile
     \/ /\ zipFile' = [exists |-> TRUE, from |-> "deploy", assets |-> copy.state]
        /\ log' = log \o <<[status |-> "DEPLOY_INFO", message |-> "Packing Service Success!"],
                           [status |-> "DEPLOY_INFO", message |-> "Publishing to Azure ..."],
                           [status |-> "DEPLOY_INFO", message |-> "Retrieve publishing details ..."]>>
        /\ pc' = "updatePublishingUser"
        /\ UNCHANGED <<caught, deployResult, outcome>>

\* deployZip: the publishing credentials are set to a user and a password
\* made of the name, the environment and the time
deployZip_updatePublishingUser ==
  /\ pc = "updatePublishingUser"
  /\ UNCHANGED <<packState, pollerState>>
  /\ now' = now + 1
  /\ UNCHANGED <<args, caller, settingsFile, createState, deployFiles, deployLocals, uploaded>>
  /\ LET userName == args.name \o "-" \o args.environment
         userPwd == args.name \o "-" \o args.environment \o "-" \o ToString(now)
     IN /\ calls' = Called([op |-> "updatePublishingUser", publishingUserName |-> userName,
                            publishingPassword |-> userPwd])
        /\ \/ deployCatches("updatePublishingUser", log) /\ UNCHANGED publishingUser
           \/ /\ publishingUser' = [publishingUserName |-> userName, publishingPassword |-> userPwd]
              /\ log' = Logged("DEPLOY_INFO", "updateRes")
              /\ pc' = "zipdeploy"
              /\ UNCHANGED <<caught, deployResult, outcome>>

\* the header carries no credentials
base64_empty(text) == [base64 |-> ""]

\* Buffer.from(text).toString('base64'): an encoding that can be decoded
base64(text) == [base64 |-> text]

\* deployZip: the archive is read and posted with the credentials just set
deployZip_post ==
  /\ pc = "zipdeploy"
  /\ UNCHANGED <<packState, pollerState>>
  /\ now' = now + 1
  /\ UNCHANGED <<args, caller, settingsFile, createState, deployFiles, deployLocals,
                 publishingUser>>
  /\ LET post == [op |-> "rp.post",
                  uri |-> "https://" \o args.name \o "-" \o args.environment
                          \o ".scm.azurewebsites.net/zipdeploy",
                  body |-> zipFile,
                  authorization |-> [scheme |-> "Basic",
                                     credentials |-> base64(publishingUser.publishingUserName \o ":"
                                                            \o publishingUser.publishingPassword)],
                  contentType |-> "application/zip"]
     IN IF ~zipFile.exists
          THEN /\ calls' = Called([op |-> "fs.readFile", path |-> "zipPath"])
               /\ deployCatches("readFile", log)
               /\ UNCHANGED uploaded
          ELSE /\ calls' = calls \o <<[op |-> "fs.readFile", path |-> "zipPath"], post>>
               /\ \/ deployCatches("zipdeploy", log) /\ UNCHANGED uploaded
                  \/ /\ uploaded' = Append(uploaded, zipFile)
                     /\ log' = log \o <<[status |-> "DEPLOY_INFO", message |-> "response"],
                                        [status |-> "DEPLOY_SUCCESS", message |-> "Publish To Azure Success!"]>>
                     /\ caught' = caught
                     /\ deployResult' = Returned(Undefined)
                     /\ outcome' = Returned(Undefined)
                     /\ pc' = "done"

(***************************************************************************)
(* pack followed by unpackObject, on maps of values                         *)
(***************************************************************************)
\* the maps have at most MaxPackKeys members
MaxPackKeys == 2
PackKeys == {"p" \o ToString(i) : i \in 1..MaxPackKeys}
PackValues == {JsBool(FALSE), JsBool(TRUE), JsNum(0), JsNum(1), JsStr(""), JsStr("x")}
PackInputs == UNION {[keys -> PackValues] : keys \in SUBSET PackKeys}

pack_wrap ==
  /\ packPc = "pack"
  /\ packed' = [key \in DOMAIN packInput |-> pack(packInput[key])]
  /\ packPc' = "unpackObject"
  /\ UNCHANGED <<packInput, unpacked>>

pack_unwrap ==
  /\ packPc = "unpackObject"
  /\ unpacked' = unpackObject(packed)
  /\ packPc' = "done"
  /\ UNCHANGED <<packInput, packed>>

(***************************************************************************)
(* The publish page: the rows of the bots, their publish history and the   *)
(* effect that polls for the status of a publish                           *)
(***************************************************************************)
getPublishStatusInterval == 10000

MaxHistory == 1
MaxInputs == 4
MaxTicks == 2

Bots == {"b1", "b2"}

\* bot.setting.publishTargets, by name
TargetsOf(id) == IF id = "b1" THEN <<"t1", "t2">> ELSE <<"t1">>

TargetNames(id) == {TargetsOf(id)[i] : i \in DOMAIN TargetsOf(id)}

Pairs == {<<"b1", "t1">>, <<"b1", "t2">>, <<"b2", "t1">>}

PublishStatuses == {202, 200, 500}

\* an entry of a publish history; time n is the n-th publish to the target
\* since the page was mounted, 0 for an entry that was there at the mount
Entry(status, n) ==
  [status |-> status, comment |-> "comment " \o ToString(n),
   message |-> "message " \o ToString(status), time |-> n]

\* a row of a bot as the loop over botProjectData builds it
botStatus(id, publishHistory) ==
  LET publishTarget == TargetsOf(id)[1]
      history == publishHistory[<<id, publishTarget>>]
  IN IF Len(history) > 0
       THEN [publishTarget |-> publishTarget, status |-> history[1].status,
             comment |-> history[1].comment, message |-> history[1].message,
             time |-> history[1].time]
       ELSE [publishTarget |-> publishTarget, status |-> 0, comment |-> "", message |-> "",
             time |-> 0]

\* two callbacks scheduled for one observation
getUpdatedStatus_twice(scheduled, target, botProjectId) ==
  scheduled \o <<[bot |-> botProjectId, target |-> target, due |-> clock + getPublishStatusInterval],
                 [bot |-> botProjectId, target |-> target, due |-> clock + getPublishStatusInterval]>>

\* the callback replaces the ones still waiting for the same bot and target
getUpdatedStatus_cancelling(scheduled, target, botProjectId) ==
  Append(SelectSeq(scheduled, LAMBDA waiting :
                     ~(waiting.bot = botProjectId /\ waiting.target = target)),
         [bot |-> botProjectId, target |-> target, due |-> clock + getPublishStatusInterval])

\* one callback that will call getPublishStatus is handed to setTimeout
getUpdatedStatus(scheduled, target, botProjectId) ==
  IF target # ""
    THEN Append(scheduled, [bot |-> botProjectId, target |-> target,
                            due |-> clock + getPublishStatusInterval])
    ELSE scheduled

\* what a pass of the history effect has done so far
PassStart ==
  [timers |-> timers, notifications |-> notifications, showNotifications |-> showNotifications,
   statusFetches |-> statusFetches, botStatusList |-> botStatusList]

\* the completion card of a bot is added; deleted is the id of the pending
\* card that deleteNotification is called with just before, 0 for no call
publishedNotification(done, bot, status) ==
  Append(done, [card |-> "published", bot |-> bot.id, status |-> status,
                deleted |-> pendingNotification])

\* the body of the loop of the history effect for one selected bot; the
\* notification flags written are those of the render plus one flag cleared
visitBot(pass, bot) ==
  IF bot.publishTarget = "" \/ bot.publishTarget \notin TargetNames(bot.id)
    THEN pass
    ELSE
      LET botProjectId == bot.id
          selectedTarget == bot.publishTarget
          botPublishHistory == botPublishHistoryList[<<botProjectId, selectedTarget>>]
      IN IF Len(botPublishHistory) > 0
           THEN
             LET head == botPublishHistory[1]
                 branch ==
                   IF head.status = 202
                     THEN [pass EXCEPT !.timers = getUpdatedStatus(@, selectedTarget, botProjectId)]
                   ELSE IF head.status = 200 \/ head.status = 500
                     THEN IF showNotifications[botProjectId]
                            THEN [pass EXCEPT
                                    !.notifications = publishedNotification(@, bot, head.status),
                                    !.showNotifications =
                                       [showNotifications EXCEPT ![botProjectId] = FALSE]]
                            ELSE pass
                   ELSE IF lastPublished[<<botProjectId, selectedTarget>>]
                           /\ Len(botPublishHistory) = 0
                     THEN [pass EXCEPT !.statusFetches[<<botProjectId, selectedTarget>>] = @ + 1]
                   ELSE pass
             IN [branch EXCEPT !.botStatusList[botProjectId] =
                   [@ EXCEPT !.status = head.status, !.comment = head.comment,
                             !.message = head.message, !.time = head.time]]
           ELSE pass

RECURSIVE forEachSelected(_, _)
forEachSelected(pass, bots) ==
  IF bots = <<>> THEN pass ELSE forEachSelected(visitBot(pass, Head(bots)), Tail(bots))

\* the effect with dependencies botPublishHistoryList and selectedBots
historyEffect ==
  /\ effectPending
  /\ LET pass == forEachSelected(PassStart, selectedBots)
     IN /\ timers' = pass.timers
        /\ notifications' = pass.notifications
        /\ showNotifications' = pass.showNotifications
        /\ statusFetches' = pass.statusFetches
        /\ botStatusList' = pass.botStatusList
  /\ effectPending' = FALSE
  /\ UNCHANGED <<botPublishHistoryList, selectedBots, shared, pendingNotification, lastPublished,
                 clock, publishing, inputs>>

\* the effects of the last render have run and the page takes a further input
Quiet ==
  /\ ~effectPending
  /\ inputs < MaxInputs

\* the histories the store may hold next for a target: the same one, one with
\* a new entry in front, or one whose pending entry has got its result
NextHistories(history) ==
  {history}
    \cup (IF Len(history) < MaxHistory
            THEN {<<Entry(status, Len(history) + 1)>> \o history : status \in PublishStatuses}
            ELSE {})
    \cup (IF Len(history) > 0 /\ history[1].status = 202
            THEN {<<[history[1] EXCEPT !.status = status,
                                       !.message = "message " \o ToString(status)]>>
                    \o Tail(history) : status \in {200, 500}}
            ELSE {})

\* botProjectData changes: the effect that depends on it stores the
\* histories anew
botProjectDataChanges ==
  /\ Quiet
  /\ \E pair \in Pairs : \E history \in NextHistories(botPublishHistoryList[pair]) :
       botPublishHistoryList' = [botPublishHistoryList EXCEPT ![pair] = history]
  /\ effectPending' = TRUE
  /\ inputs' = inputs + 1
  /\ UNCHANGED <<botStatusList, selectedBots, shared, showNotifications, pendingNotification,
                 notifications, timers, statusFetches, lastPublished, clock, publishing>>

\* the selections the list of rows hands over, in the order of the rows
Selections == {<<>>, <<"b1">>, <<"b2">>, <<"b1", "b2">>}

updateSelectedBots ==
  /\ Quiet
  /\ ~publishing
  /\ \E selection \in Selections :
       selectedBots' = [i \in DOMAIN selection |->
                          [id |-> selection[i],
                           publishTarget |-> botStatusList[selection[i]].publishTarget]]
  /\ shared' = {}
  /\ effectPending' = TRUE
  /\ inputs' = inputs + 1
  /\ UNCHANGED <<botPublishHistoryList, botStatusList, showNotifications, pendingNotification,
                 notifications, timers, statusFetches, lastPublished, clock, publishing>>

\* the target of a row is changed; a selected row that is the same object
\* changes with it
changePublishTarget ==
  /\ Quiet
  /\ inputs' = inputs + 1
  /\ \E id \in Bots : \E publishTarget \in TargetNames(id) :
       /\ botStatusList' = [botStatusList EXCEPT ![id].publishTarget = publishTarget]
       /\ selectedBots' = [i \in DOMAIN selectedBots |->
                             IF selectedBots[i].id = id /\ id \in shared
                               THEN [selectedBots[i] EXCEPT !.publishTarget = publishTarget]
                               ELSE selectedBots[i]]
  /\ UNCHANGED <<botPublishHistoryList, shared, showNotifications, pendingNotification,
                 notifications, timers, statusFetches, lastPublished, clock, effectPending,
                 publishing>>

Ids(bots) == {bots[i].id : i \in DOMAIN bots}

\* publish, up to its first request: the flags of the items are set and the
\* pending card is added
publish_begin ==
  /\ Quiet
  /\ ~publishing
  /\ selectedBots # <<>>
  /\ showNotifications' = [id \in Bots |-> id \in Ids(selectedBots)]
  /\ pendingNotification' = pendingNotification + 1
  /\ notifications' = Append(notifications,
                             [card |-> "pending", id |-> pendingNotification + 1,
                              bots |-> Ids(selectedBots)])
  /\ publishing' = TRUE
  /\ inputs' = inputs + 1
  /\ UNCHANGED <<botPublishHistoryList, botStatusList, selectedBots, shared, timers,
                 statusFetches, lastPublished, clock, effectPending>>

\* publish, once its requests have returned: the rows of the items are
\* replaced by the items, with status 202
publish_end ==
  /\ ~effectPending
  /\ publishing
  /\ botStatusList' = [id \in Bots |->
                         IF id \in Ids(selectedBots)
                           THEN LET item == CHOOSE bot \in {selectedBots[i] : i \in DOMAIN selectedBots} :
                                              bot.id = id
                                IN [publishTarget |-> item.publishTarget, status |-> 202,
                                    comment |-> "", message |-> "", time |-> 0]
                           ELSE botStatusList[id]]
  /\ shared' = Ids(selectedBots)
  /\ publishing' = FALSE
  /\ UNCHANGED <<botPublishHistoryList, selectedBots, showNotifications, pendingNotification,
                 notifications, timers, statusFetches, lastPublished, clock, effectPending,
                 inputs>>

\* time passes
tick ==
  /\ clock < MaxTicks * (getPublishStatusInterval \div 2)
  /\ clock' = clock + getPublishStatusInterval \div 2
  /\ UNCHANGED <<botPublishHistoryList, botStatusList, selectedBots, shared, showNotifications,
                 pendingNotification, notifications, timers, statusFetches, lastPublished,
                 effectPending, publishing, inputs>>

\* the oldest callback runs once its delay has passed and calls
\* getPublishStatus
timerFires ==
  /\ timers # <<>>
  /\ Head(timers).due <= clock
  /\ statusFetches' = [statusFetches EXCEPT ![<<Head(timers).bot, Head(timers).target>>] = @ + 1]
  /\ timers' = Tail(timers)
  /\ UNCHANGED <<botPublishHistoryList, botStatusList, selectedBots, shared, showNotifications,
                 pendingNotification, notifications, lastPublished, clock, effectPending,
                 publishing, inputs>>

(***************************************************************************)
(* Initial states and specifications, one per public operation              *)
(***************************************************************************)
createIdle ==
  /\ appId = Undefined
  /\ resourceGroupName = ""
  /\ timeStamp = 0
  /\ deploymentTemplateParam = EmptyObj
  /\ validation = Undefined
  /\ deployment = 0
  /\ outputs = NoOutputs
  /\ updateResult = Undefined
  /\ settingsBefore = settingsFile

deployIdle ==
  /\ published = FALSE
  /\ copy = [state |-> "notStarted", source |-> ""]
  /\ deploymentSettingsFile = NoFile
  /\ luisAuthoringKey = Undefined
  /\ luisAuthoringRegion = Undefined
  /\ luisEndpointKey = Undefined
  /\ language = ""
  /\ luisAppIds = EmptyObj
  /\ account = Undefined
  /\ toAssign = <<>>
  /\ publishingUser = [publishingUserName |-> "", publishingPassword |-> ""]
  /\ uploaded = <<>>
  /\ caught = ""

packIdle ==
  /\ packInput = EmptyObj
  /\ packed = EmptyObj
  /\ unpacked = EmptyObj
  /\ packPc = "idle"

\* the page is not mounted
pollerIdle ==
  /\ botPublishHistoryList = [pair \in Pairs |-> <<>>]
  /\ botStatusList = [id \in Bots |-> botStatus(id, [pair \in Pairs |-> <<>>])]
  /\ selectedBots = <<>>
  /\ shared = {}
  /\ showNotifications = [id \in Bots |-> FALSE]
  /\ pendingNotification = 0
  /\ notifications = <<>>
  /\ timers = <<>>
  /\ statusFetches = [pair \in Pairs |-> 0]
  /\ lastPublished = [pair \in Pairs |-> FALSE]
  /\ clock = 0
  /\ effectPending = FALSE
  /\ publishing = FALSE
  /\ inputs = 0

common ==
  /\ now = 1
  /\ outcome = Running
  /\ calls = <<>>
  /\ log = <<>>

\* create, called on its own
Init ==
  /\ args \in [name : Names, location : Locations, environment : Environments,
               appPassword : Passwords, luisAuthoringKey : AuthoringKeys,
               luisAuthoringRegion : {""}, botPath : {""}, language : {""}]
  /\ caller = "create"
  /\ pc = "create"
  /\ settingsFile \in {NoFile} \cup {File(d) : d \in SettingsDocuments}
  /\ groups \in {{}, {"bot1-dev"}}
  /\ createResult = Running
  /\ deployResult = NotCalled
  /\ deployFile = [exists |-> FALSE, data |-> ""]
  /\ zipFile = NoArchive
  /\ common /\ createIdle /\ deployIdle /\ packIdle /\ pollerIdle

NextCreate ==
  \/ create_readSettings
  \/ create_createApp
  \/ create_createResourceGroup
  \/ create_validateDeployment
  \/ create_createDeployment
  \/ create_updateDeploymentJsonFile
  \/ create_finish

Spec == Init /\ [][NextCreate]_vars

\* the settings documents deploy is run against
DeploySettingsDocuments ==
  {EmptyObj,
   [luis |-> LuisSection],
   [luis |-> JsObj([authoringKey |-> JsStr("skey"), endpointKey |-> JsStr("ekey")])],
   [MicrosoftAppId |-> JsStr("app0"), luis |-> JsObj([region |-> JsStr("westus")])]}

StaleArchive == [exists |-> TRUE, from |-> "earlier", assets |-> "finished"]

\* deploy, called on its own
InitDeploy ==
  /\ args \in [name : Names, location : {""}, environment : Environments,
               appPassword : {""}, luisAuthoringKey : AuthoringKeys,
               luisAuthoringRegion : Regions, botPath : {"", "external"},
               language : {"", "fr-fr"}]
  /\ caller = "deploy"
  /\ pc = "deploy"
  /\ settingsFile \in {NoFile} \cup {File(d) : d \in DeploySettingsDocuments}
  /\ groups = {}
  /\ createResult = NotCalled
  /\ deployResult = Running
  /\ deployFile \in {[exists |-> FALSE, data |-> ""], [exists |-> TRUE, data |-> "[config]"]}
  /\ zipFile \in {NoArchive, StaleArchive}
  /\ common /\ createIdle /\ deployIdle /\ packIdle /\ pollerIdle

NextDeploy ==
  \/ deploy_botPrepareDeploy
  \/ deploy_removeZip
  \/ deploy_dotnetPublish
  \/ fs_copyEnds
  \/ deploy_readSettings
  \/ luis_getFiles
  \/ luis_loadContents
  \/ luis_build
  \/ luis_writeDialogAssets
  \/ luis_readConfigs
  \/ luis_updateSettings
  \/ luis_getAccount
  \/ luis_assign
  \/ deploy_zipDirectory
  \/ deployZip_updatePublishingUser
  \/ deployZip_post

SpecDeploy == InitDeploy /\ [][NextDeploy]_vars

\* pack and unpackObject, applied to every map of PackInputs
InitPack ==
  /\ args = [name |-> "", location |-> "", environment |-> "", appPassword |-> "",
             luisAuthoringKey |-> "", luisAuthoringRegion |-> "", botPath |-> "",
             language |-> ""]
  /\ caller = "pack"
  /\ pc = "done"
  /\ settingsFile = NoFile
  /\ groups = {}
  /\ createResult = NotCalled
  /\ deployResult = NotCalled
  /\ deployFile = [exists |-> FALSE, data |-> ""]
  /\ zipFile = NoArchive
  /\ common /\ createIdle /\ deployIdle /\ pollerIdle
  /\ packInput \in PackInputs
  /\ packed = EmptyObj
  /\ unpacked = EmptyObj
  /\ packPc = "pack"

NextPack ==
  \/ /\ pack_wrap
     /\ UNCHANGED <<args, caller, pc, now, settingsFile, createState, outcome, calls, log,
                    deployState, pollerState>>
  \/ /\ pack_unwrap
     /\ UNCHANGED <<args, caller, pc, now, settingsFile, createState, outcome, calls, log,
                    deployState, pollerState>>

SpecPack == InitPack /\ [][NextPack]_vars

\* createAndDeploy: create, then deploy with the same name, environment and
\* language-model arguments
InitCreateAndDeploy ==
  /\ args \in [name : {"bot1"}, location : Locations, environment : Environments,
               appPassword : Passwords, luisAuthoringKey : AuthoringKeys,
               luisAuthoringRegion : Regions, botPath : {""}, language : {""}]
  /\ caller = "createAndDeploy"
  /\ pc = "create"
  /\ settingsFile \in {NoFile, File(EmptyObj),
                       File([MicrosoftAppId |-> JsStr("app0"), luis |-> LuisSection])}
  /\ groups = {}
  /\ createResult = Running
  /\ deployResult = NotCalled
  /\ deployFile = [exists |-> FALSE, data |-> ""]
  /\ zipFile \in {NoArchive, StaleArchive}
  /\ common /\ createIdle /\ deployIdle /\ packIdle /\ pollerIdle

NextCreateAndDeploy == NextCreate \/ NextDeploy

SpecCreateAndDeploy == InitCreateAndDeploy /\ [][NextCreateAndDeploy]_vars

\* the histories the page may be mounted with
MountedHistories ==
  {[pair \in Pairs |-> IF pair \in loaded THEN <<Entry(200, 0)>> ELSE <<>>] :
     loaded \in {{}, {<<"b1", "t1">>, <<"b2", "t1">>}}}

\* the publish page, mounted with the data of the bots
InitPoller ==
  /\ args = [name |-> "", location |-> "", environment |-> "", appPassword |-> "",
             luisAuthoringKey |-> "", luisAuthoringRegion |-> "", botPath |-> "",
             language |-> ""]
  /\ caller = "Publish"
  /\ pc = "done"
  /\ settingsFile = NoFile
  /\ groups = {}
  /\ createResult = NotCalled
  /\ deployResult = NotCalled
  /\ deployFile = [exists |-> FALSE, data |-> ""]
  /\ zipFile = NoArchive
  /\ common /\ createIdle /\ deployIdle /\ packIdle
  /\ botPublishHistoryList \in MountedHistories
  /\ botStatusList = [id \in Bots |-> botStatus(id, botPublishHistoryList)]
  /\ selectedBots = <<>>
  /\ shared = {}
  /\ showNotifications = [id \in Bots |-> FALSE]
  /\ pendingNotification = 0
  /\ notifications = <<>>
  /\ timers = <<>>
  /\ statusFetches = [pair \in Pairs |-> 0]
  \* the targets of b1 have been published to before, those of b2 never
  /\ lastPublished = [pair \in Pairs |-> pair[1] = "b1"]
  /\ clock = 0
  /\ effectPending = TRUE
  /\ publishing = FALSE
  /\ inputs = 0

backendState == <<args, caller, pc, now, settingsFile, createState, outcome, calls, log,
                  deployState, packState>>

NextPoller ==
  \/ historyEffect /\ UNCHANGED backendState
  \/ botProjectDataChanges /\ UNCHANGED backendState
  \/ updateSelectedBots /\ UNCHANGED backendState
  \/ changePublishTarget /\ UNCHANGED backendState
  \/ publish_begin /\ UNCHANGED backendState
  \/ publish_end /\ UNCHANGED backendState
  \/ tick /\ UNCHANGED backendState
  \/ timerFires /\ UNCHANGED backendState

SpecPoller == InitPoller /\ [][NextPoller]_vars

(***************************************************************************)
(* Properties                                                               *)
(***************************************************************************)
Issued(op) == \E i \in DOMAIN calls : calls[i].op = op
CallsTo(ops) == SelectSeq(calls, LAMBDA call : call.op \in ops)
createReturned(value) == createResult = Returned(value)
HadNoAppId == settingsBefore.exists /\ ~Truthy(Get(settingsBefore.doc, "MicrosoftAppId"))

\* C1: once the validation of the template has answered with an error, create
\* has returned false and no deployments.createOrUpdate call has been issued.
C1_ValidationErrorReturnsFalse ==
  Truthy(validation) =>
    /\ createReturned(JsBool(FALSE))
    /\ pc = "done"
    /\ ~Issued("deployments.createOrUpdate")

C1_Witness == Truthy(validation) /\ createResult.state = "returned" /\ Issued("deployments.validate")

\* C2: with a settings file that has no MicrosoftAppId and no appPassword
\* passed, create returns false and issues no registration, resource-group,
\* validation or deployment call.
C2_NoPasswordReturnsFalse ==
  (HadNoAppId /\ ~Truthy(JsStr(args.appPassword)) /\ createResult.state = "returned") =>
    /\ createReturned(JsBool(FALSE))
    /\ CallsTo({"applications.create", "resourceGroups.createOrUpdate", "deployments.validate",
                "deployments.createOrUpdate"}) = <<>>

\* C3: without a settings file create logs the failure and returns, without
\* throwing and without any call: no registration, resource group, validation,
\* deployment or settings write.
C3_NoSettingsFileReturnsEarly ==
  (~settingsBefore.exists /\ pc # "create") =>
    /\ createReturned(Undefined)
    /\ outcome = Returned(Undefined)
    /\ calls = <<>>
    /\ settingsFile = settingsBefore
    /\ log = <<[status |-> "PROVISION_INFO",
                message |-> "! Could not find an 'appsettings.deployment.json' file in the current directory."]>>

C3_Witness == ~settingsBefore.exists /\ pc = "done" /\ Len(log) = 1

\* the places in the call log of the calls to one operation
Places(op) == {i \in DOMAIN calls : calls[i].op = op}

\* C4: create returns true only after the resource group was created, the
\* validation answered without an error and the deployment answered 200, in
\* this order; it returns false on a validation error and on any other status;
\* and after a deployment that answered 200 whatever follows (the outputs, the
\* diagnostics) leaves the returned value true.
C4_TrueOnlyAfterAllThree ==
  /\ createReturned(JsBool(TRUE)) =>
       /\ resourceGroupName \in groups /\ ~Truthy(validation) /\ deployment = 200
       /\ \E i \in Places("resourceGroups.createOrUpdate"), j \in Places("deployments.validate"),
             k \in Places("deployments.createOrUpdate") : i < j /\ j < k
  /\ (createResult.state = "returned" /\ Truthy(validation)) => createReturned(JsBool(FALSE))
  /\ (createResult.state = "returned" /\ deployment \notin {0, 200}) => createReturned(JsBool(FALSE))
  /\ (createResult.state = "returned" /\ deployment = 200) => createReturned(JsBool(TRUE))

C4_Witness == createReturned(JsBool(TRUE)) /\ deployment = 200 /\ ~outputs.present

\* C5: after a deployment response whose status is not 200, create has
\* returned false, the settings file is as it was found, and neither the
\* outputs were fetched nor the settings written.
C5_FailedDeploymentLeavesSettings ==
  deployment \notin {0, 200} =>
    /\ createReturned(JsBool(FALSE))
    /\ settingsFile = settingsBefore
    /\ ~Issued("deployments.get")
    /\ ~Issued("fs.writeFile")

C5_Witness == deployment = 201 /\ createReturned(JsBool(FALSE)) /\ Issued("deployments.createOrUpdate")

\* C6: once create has rewritten the settings file, every key the document
\* had before that is neither a deployment output nor an identity field is
\* still there with its value.
C6_RewriteKeepsOtherKeys ==
  (Issued("fs.writeFile") /\ createReturned(JsBool(TRUE))) =>
    \A key \in DOMAIN settingsBefore.doc \ (DOMAIN outputs.outputs \cup {"MicrosoftAppId", "MicrosoftAppPassword"}) :
      /\ key \in DOMAIN settingsFile.doc
      /\ settingsFile.doc[key] = settingsBefore.doc[key]

C9_OneGroupNameOneDeployId ==
  /\ \A i \in DOMAIN calls :
       calls[i].op \in {"resourceGroups.createOrUpdate", "deployments.validate",
                        "deployments.createOrUpdate", "deployments.get"}
         => calls[i].resourceGroupName = args.name \o "-" \o args.environment
  /\ \A i \in DOMAIN calls :
       calls[i].op \in {"deployments.validate", "deployments.createOrUpdate", "deployments.get"}
         => calls[i].deployName = timeStamp
  /\ resourceGroupName \in {"", args.name \o "-" \o args.environment}

C9_Witness ==
  /\ Issued("resourceGroups.createOrUpdate") /\ Issued("deployments.validate")
  /\ Issued("deployments.createOrUpdate") /\ Issued("deployments.get")
  /\ resourceGroupName = "mybot-prod"
  /\ now > timeStamp + 1

\* C7: the step of deploy that writes the deployment settings changes their
\* luis key only: every other key of the document read is in the document
\* written, with its value, and no key but luis is added.
C7_OnlyLuisChanges ==
  [][deploymentSettingsFile' # deploymentSettingsFile /\ pc = "luis_updateSettings" =>
       /\ DOMAIN deploymentSettingsFile'.doc = DOMAIN deploymentSettingsFile.doc \cup {"luis"}
       /\ \A key \in DOMAIN deploymentSettingsFile.doc \ {"luis"} :
            deploymentSettingsFile'.doc[key] = deploymentSettingsFile.doc[key]
       /\ deploymentSettingsFile'.doc["luis"] =
            JsObj(JsonStringify(luisConfigOf(luisAuthoringRegion.s, luisEndpointKey, luisAppIds)))]_vars

C7_Witness ==
  /\ Issued("fs.writeJson") /\ pc = "luis_getAccount"
  /\ {"MicrosoftAppId", "feature", "luis"} \subseteq DOMAIN deploymentSettingsFile.doc
  /\ "a" \in DOMAIN deploymentSettingsFile.doc["luis"].o

\* C10: every member of the packed map is the {value: X} envelope of the
\* member of the input, and unpackObject of the packed map is the input map,
\* false, 0 and the empty string included.
C10_UnpackInvertsPack ==
  /\ packPc \in {"unpackObject", "done"} =>
       /\ DOMAIN packed = DOMAIN packInput
       /\ \A key \in DOMAIN packInput : packed[key] = [value |-> packInput[key]]
  /\ packPc = "done" => unpacked = packInput

\* the calls of the language-model sub-flow: the model load and build, the
\* write of the deployment settings, the account list and the assignments
LuisCalls ==
  SelectSeq(calls, LAMBDA call :
    \/ call.op \in {"builder.loadContents", "builder.build", "builder.writeDialogAssets",
                    "fs.writeJson", "rp.get"}
    \/ call.op = "rp.post" /\ "subscriptionKey" \in DOMAIN call)

\* C11: when, after the defaulting from the settings file, the authoring key
\* or the authoring region is absent, deploy issues no call of the
\* language-model sub-flow: no load or build, no deployment-settings write, no
\* account-list GET, no assignment POST.
C11_NoCredentialsNoLuisCalls ==
  (~Truthy(luisAuthoringKey) \/ ~Truthy(luisAuthoringRegion)) =>
    /\ LuisCalls = <<>>
    /\ ~Issued("getFiles")
    /\ deploymentSettingsFile \in {NoFile} \cup {File(d) : d \in DeploymentSettingsDocuments}

C11_Witness ==
  /\ Truthy(luisAuthoringKey) /\ ~Truthy(luisAuthoringRegion)
  /\ language = "en-us"
  /\ uploaded # <<>> /\ pc = "done"

\* C12: deploy never ends by throwing: once a step has thrown, the error has
\* been printed by the catch clause as the last event and deploy has returned
\* (undefined) to its caller.
C12_DeployNeverThrows ==
  /\ deployResult.state # "thrown"
  /\ outcome.state # "thrown"
  /\ caught # "" =>
       /\ deployResult = Returned(Undefined)
       /\ outcome = Returned(Undefined)
       /\ pc = "done"
       /\ log[Len(log)] = [status |-> "console.log", message |-> "error"]

C12_Witness == caught = "rp.post" /\ deployResult = Returned(Undefined) /\ Len(LuisCalls) > 4

\* C13: whenever create has failed (returned false, returned early or thrown)
\* or a step of deploy has thrown, createAndDeploy ends rejected.
C13_FailuresPropagate ==
  (pc = "done" /\ (createResult # Returned(JsBool(TRUE)) \/ caught # "")) => outcome = Thrown

\* C18: the scan of the model files, the packaging of the publish folder and
\* the upload start only once the copy of the declarative assets has ended.
C18_CopyEndsBeforeLaterSteps ==
  [][(pc \in {"luis_getFiles", "luis_readConfigs", "zipDirectory", "updatePublishingUser",
              "zipdeploy"} /\ pc' # pc)
       => copy.state \in {"finished", "failed"}]_vars

\* C19: when the deployment read back has no outputs, create lists the
\* operations of the deployment before it returns.
C19_NoOutputsListsOperations ==
  (createResult.state = "returned" /\ deployment = 200 /\ ~outputs.present) =>
    Issued("deploymentOperations.list")

SuccessLogged == \E i \in DOMAIN log : log[i].status = "DEPLOY_SUCCESS"

\* C20: the upload comes after the archive, the archive after the build and
\* after every call of the language-model sub-flow; DEPLOY_SUCCESS is logged
\* only once the upload has returned; and once a step has thrown no further
\* call is issued and DEPLOY_SUCCESS is never logged.
C20_StepsInOrder ==
  /\ [](/\ Issued("rp.post") /\ Issued("zipDirectory") =>
             \A i \in Places("zipDirectory") :
               /\ \A j \in DOMAIN calls : "contentType" \in DOMAIN calls[j] => i < j
               /\ \A j \in DOMAIN calls :
                    (calls[j].op \in {"exec", "getFiles", "builder.loadContents", "builder.build",
                                      "builder.writeDialogAssets", "fs.writeJson", "rp.get"}
                       \/ (calls[j].op = "rp.post" /\ "subscriptionKey" \in DOMAIN calls[j]))
                    => j < i
        /\ (\E j \in DOMAIN calls : "contentType" \in DOMAIN calls[j]) =>
             zipFile.exists /\ zipFile.from = "deploy" /\ Issued("zipDirectory") /\ Issued("exec")
        /\ Issued("zipDirectory") => Issued("exec") /\ published
        /\ SuccessLogged =>
             /\ uploaded = <<zipFile>>
             /\ log[Len(log)].status = "DEPLOY_SUCCESS"
             /\ caught = ""
        /\ caught # "" => pc = "done" /\ ~SuccessLogged)
  /\ [][caught # "" => calls' = calls /\ log' = log /\ uploaded' = uploaded]_vars

C20_Witness ==
  /\ SuccessLogged /\ Len(LuisCalls) = 7 /\ deployFile.data = DeploymentDescriptor

\* the callbacks outstanding for a (bot, target)
TimersFor(scheduled, pair) ==
  Cardinality({i \in DOMAIN scheduled :
                 scheduled[i].bot = pair[1] /\ scheduled[i].target = pair[2]})

Selected(pair) ==
  \E i \in DOMAIN selectedBots :
    selectedBots[i].id = pair[1] /\ selectedBots[i].publishTarget = pair[2]

\* a selected (bot, target) whose most recent history entry has one of the statuses
Observes(pair, statuses) ==
  /\ Selected(pair)
  /\ Len(botPublishHistoryList[pair]) > 0
  /\ botPublishHistoryList[pair][1].status \in statuses

\* a step that is a pass of the history effect
EffectRuns == effectPending /\ ~effectPending'

\* C14: a pass of the history effect that sees status 202 at the head of the
\* history of a selected (bot, target) schedules exactly one callback for the
\* pair, due 10000 ms later, and schedules none otherwise; a callback runs
\* only once it is due, and it calls getPublishStatus once for its pair;
\* getPublishStatus is called from nowhere else.
C14_OneRecheckPerObservation ==
  [][/\ EffectRuns =>
          /\ \A pair \in Pairs :
               TimersFor(timers', pair) =
                 TimersFor(timers, pair) + (IF Observes(pair, {202}) THEN 1 ELSE 0)
          /\ Len(timers') >= Len(timers)
          /\ SubSeq(timers', 1, Len(timers)) = timers
          /\ \A i \in DOMAIN timers' : i > Len(timers) => timers'[i].due = clock + 10000
          /\ statusFetches' = statusFetches
     /\ (~EffectRuns /\ timers' # timers) =>
          /\ timers # <<>>
          /\ timers' = Tail(timers)
          /\ Head(timers).due <= clock
          /\ statusFetches' = [statusFetches EXCEPT
                                 ![<<Head(timers).bot, Head(timers).target>>] = @ + 1]
     /\ statusFetches' # statusFetches => timers # <<>> /\ timers' = Tail(timers)]_vars

C14_Witness ==
  /\ statusFetches[<<"b1", "t1">>] = 1
  /\ clock >= getPublishStatusInterval
  /\ botPublishHistoryList[<<"b1", "t1">>][1].status = 202
  /\ timers = <<>>

\* the completion cards added for a bot after the last pending card that names it
CompletionsSincePublish(id) ==
  LET pending == {i \in DOMAIN notifications :
                    notifications[i].card = "pending" /\ id \in notifications[i].bots}
  IN {i \in DOMAIN notifications :
        /\ notifications[i].card = "published"
        /\ notifications[i].bot = id
        /\ \A j \in pending : j < i}

\* C15: after a publish at most one completion notification is added for a
\* bot until the next publish of it, however many passes of the effect follow
\* and however many bots are terminal in one pass.
C15_OneCompletionPerPublish ==
  \A id \in Bots : Cardinality(CompletionsSincePublish(id)) <= 1

\* C16: a pass of the history effect that finds the history of a selected
\* (bot, target) empty while the target carries lastPublished calls
\* getPublishStatus once for the pair.
C16_EmptyHistoryPollsOnce ==
  [][EffectRuns =>
       \A pair \in Pairs :
         (Selected(pair) /\ Len(botPublishHistoryList[pair]) = 0 /\ lastPublished[pair])
           => statusFetches'[pair] = statusFetches[pair] + 1]_vars

\* C17: after a pass of the history effect the row of every selected bot
\* shows the status, comment, message and time of entry 0 of the history of
\* its target, and for an empty history no status other than the 202 that
\* publish puts there.
C17_RowShowsEntryZero ==
  [][EffectRuns =>
       \A pair \in Pairs :
         Selected(pair) =>
           LET row == botStatusList'[pair[1]]
               history == botPublishHistoryList[pair]
           IN IF Len(history) > 0
                THEN /\ row.status = history[1].status
                     /\ row.comment = history[1].comment
                     /\ row.message = history[1].message
                     /\ row.time = history[1].time
                ELSE row.status \in {0, 202}]_vars

\* C24: create calls the application registration at most once, and only when
\* the settings file holds no MicrosoftAppId; the appId parameter of the
\* template is the id of the settings file when there is one, and the id the
\* registration returned otherwise.
C24_RegistersOnlyWithoutAppId ==
  /\ Len(CallsTo({"applications.create"})) <= 1
  /\ Issued("applications.create") => HadNoAppId
  /\ \A i \in Places("deployments.validate") :
       LET id == calls[i].parameters.appId.value
           fromSettings == Get(settingsBefore.doc, "MicrosoftAppId")
       IN IF Truthy(fromSettings)
            THEN id = fromSettings /\ ~Issued("applications.create")
            ELSE /\ id = appId
                 /\ id \in {JsStr(registered) : registered \in RegisteredIds}
                 /\ Len(CallsTo({"applications.create"})) = 1
                 /\ \A j \in Places("applications.create") : j < i

C24_Witness ==
  /\ createReturned(JsBool(TRUE))
  /\ Issued("applications.create")
  /\ deploymentTemplateParam.appId = pack(JsStr("reg-2"))

\* the assignment requests of the language-understanding sub-flow, in order
LuisPosts ==
  SelectSeq(calls, LAMBDA call : call.op = "rp.post" /\ "subscriptionKey" \in DOMAIN call)

\* the keys of the application id map, in the order the loop visits them
LuisKeys == SelectSeq(AppIdOrder, LAMBDA k : k \in DOMAIN luisAppIds)

LuisFinished == \E i \in DOMAIN log : log[i].message = "Luis Publish Success! ..."

\* C25: the language-understanding sub-flow of deploy asks for the account
\* list once and then posts one assignment per application id, one after the
\* other in the order of the map, all of them after the deployment settings
\* were written; when the sub-flow finishes every application id had its post.
C25_OneGetThenOnePostPerAppId ==
  /\ Len(CallsTo({"rp.get"})) <= 1
  /\ Len(LuisPosts) <= Len(LuisKeys)
  /\ \A i \in DOMAIN LuisPosts :
       LuisPosts[i].uri = "https://" \o luisAuthoringRegion.s
                          \o ".api.cognitive.microsoft.com/luis/api/v2.0/apps/"
                          \o luisAppIds[LuisKeys[i]].s \o "/azureaccounts"
  /\ \A p \in DOMAIN calls :
       calls[p].op = "rp.post" /\ "subscriptionKey" \in DOMAIN calls[p]
         => \E w \in Places("fs.writeJson"), g \in Places("rp.get") :
              /\ calls[w].path = "deploymentSettingsPath"
              /\ w < g /\ g < p
  /\ \A g \in Places("rp.get") : \E w \in Places("fs.writeJson") : w < g
  /\ LuisFinished => Len(CallsTo({"rp.get"})) = 1 /\ Len(LuisPosts) = Len(LuisKeys)

C25_Witness ==
  /\ LuisFinished
  /\ Len(LuisPosts) = 2
  /\ LuisPosts[1].uri # LuisPosts[2].uri
  /\ deployResult = Returned(Undefined)

\* the account list held no account named after the bot's language resource
NoMatchingAccount ==
  \E g \in Places("rp.get") :
    /\ "response" \in DOMAIN calls[g]
    /\ \A i \in DOMAIN calls[g].response :
         calls[g].response[i].o.AccountName
           # JsStr(args.name \o "-" \o args.environment \o "-luis")

\* C26: when no account of the fetched list is named {name}-{environment}-luis,
\* getAccount yields undefined without any error of its own, and the
\* assignment is still posted for every application id, with undefined as body.
C26_NoAccountStillPosts ==
  NoMatchingAccount =>
    /\ account = Undefined
    /\ \A i \in DOMAIN LuisPosts : LuisPosts[i].body = Undefined
    /\ pc = "luis_assign" => Len(LuisPosts) < Len(LuisKeys) /\ caught = ""
    /\ Len(LuisPosts) < Len(LuisKeys) =>
         \/ pc = "luis_assign"
         \/ caught = "rp.post" /\ Len(LuisPosts) >= 1

C26_Witness ==
  /\ NoMatchingAccount
  /\ \E g \in Places("rp.get") : calls[g].response = <<Account("other")>>
  /\ Len(LuisPosts) = 2
  /\ LuisPosts[2].body = Undefined
  /\ SuccessLogged

\* the uploads of the archive
ZipPosts == {i \in DOMAIN calls : calls[i].op = "rp.post" /\ "contentType" \in DOMAIN calls[i]}

\* C27: deployZip sets the publishing credentials, user {name}-{environment}
\* and password {name}-{environment}-{timestamp}, before it posts the archive;
\* the post carries exactly those credentials, base64-encoded, as Basic
\* authorization; when setting the credentials fails nothing is posted.
C27_CredentialsBeforeUpload ==
  /\ \A p \in ZipPosts :
       \E u \in Places("updatePublishingUser"), timestamp \in 0..now :
         LET userName == args.name \o "-" \o args.environment
             userPwd == userName \o "-" \o ToString(timestamp)
         IN /\ u < p
            /\ calls[u].publishingUserName = userName
            /\ calls[u].publishingPassword = userPwd
            /\ calls[p].authorization =
                 [scheme |-> "Basic", credentials |-> [base64 |-> userName \o ":" \o userPwd]]
  /\ Len(CallsTo({"updatePublishingUser"})) <= 1
  /\ caught = "updatePublishingUser" => ZipPosts = {} /\ uploaded = <<>>

C27_Witness ==
  /\ ZipPosts # {}
  /\ Len(uploaded) = 1
  /\ SuccessLogged

\* the calls create may issue: none of them deletes a resource
CreateOperations ==
  {"fs.readJson", "applications.create", "resourceGroups.createOrUpdate", "deployments.validate",
   "deployments.createOrUpdate", "deployments.get", "fs.writeFile", "deploymentOperations.list"}

\* C28: create never cleans up destructively: on every path no call deletes
\* a resource group, the group it created is still there when it returns,
\* after a failed validation or a failed deployment as well, and the way to
\* delete the group is only written to the log.
C28_NeverDeletes ==
  /\ \A i \in DOMAIN calls : calls[i].op \in CreateOperations
  /\ Issued("deployments.validate") => args.name \o "-" \o args.environment \in groups
  /\ createResult.state = "returned" /\ Issued("deployments.validate") =>
       /\ args.name \o "-" \o args.environment \in groups
       /\ log[Len(log)].message
            = "+ To delete this resource group, run 'az group delete -g "
              \o args.name \o "-" \o args.environment \o " --no-wait'"
       /\ log[Len(log)].status
            = IF createReturned(JsBool(TRUE)) THEN "PROVISION_SUCCESS" ELSE "PROVISION_ERROR"

C28_Witness ==
  /\ createReturned(JsBool(FALSE))
  /\ deployment = 201
  /\ resourceGroupName \in groups
  /\ log[Len(log)].status = "PROVISION_ERROR"

C28_WitnessValidation ==
  /\ createReturned(JsBool(FALSE))
  /\ validationHasError(validation)
  /\ resourceGroupName \in groups

\* C29: when the build starts the deployment descriptor exists, written by
\* deploy if it was missing and left as it was if it was there, and no archive
\* is at the archive path; so an archive that is uploaded was packed by the
\* same invocation.
C29_CleanStartOfBuild ==
  /\ [](/\ pc = "dotnetPublish" => deployFile.exists /\ ~zipFile.exists
        /\ Issued("exec") => deployFile.exists
        /\ \A i \in DOMAIN uploaded : uploaded[i].exists /\ uploaded[i].from = "deploy"
        /\ \A p \in ZipPosts :
             /\ calls[p].body.from = "deploy"
             /\ \E z \in Places("zipDirectory") : z < p)
  /\ [][/\ deployFile.exists => deployFile' = deployFile
        /\ ~deployFile.exists /\ deployFile'.exists =>
             /\ pc = "deploy"
             /\ deployFile'.data = "[config]\nproject = BotProject.csproj"]_vars

\* a stale archive was at the archive path, the descriptor was there already,
\* and the archive of this invocation went up
C29_Witness ==
  /\ \E i \in DOMAIN calls : calls[i].op = "fs.remove"
  /\ deployFile = [exists |-> TRUE, data |-> "[config]"]
  /\ Len(uploaded) = 1
  /\ uploaded[1].from = "deploy"

\* the steps of create
CreateSteps ==
  {"create", "createApp", "createResourceGroup", "validateDeployment", "createDeployment",
   "updateDeploymentJsonFile", "createFinish"}

\* the calls only deploy issues
DeployCalls ==
  SelectSeq(calls, LAMBDA call :
    \/ call.op \notin CreateOperations
    \/ call.op = "fs.writeFile" /\ call.path = "deployFilePath")

\* C30: createAndDeploy calls deploy once, and only after create has ended,
\* whenever create does not throw, whatever create returned (true, false or
\* nothing); when create throws deploy is not called.
C30_DeployOnceAfterCreate ==
  /\ [](/\ pc \in CreateSteps => createResult = Running /\ deployResult = NotCalled
                                  /\ DeployCalls = <<>>
        /\ pc \notin CreateSteps \cup {"done"} => createResult.state = "returned"
                                                  /\ deployResult = NotCalled
        /\ createResult = Thrown =>
             pc = "done" /\ deployResult = NotCalled /\ DeployCalls = <<>> /\ outcome = Thrown
        /\ pc = "done" /\ createResult # Thrown =>
             createResult.state = "returned" /\ deployResult = Returned(Undefined))
  /\ [][/\ pc' = "deploy" /\ pc # "deploy" =>
             createResult = Running /\ createResult'.state = "returned"
        /\ createResult.state = "returned" => createResult' = createResult /\ pc' # "deploy"
        /\ createResult = Running /\ createResult'.state = "returned" => pc' = "deploy"]_vars

\* create returned false after a failed validation and deploy ran to its end
C30_Witness ==
  /\ createReturned(JsBool(FALSE))
  /\ deployResult = Returned(Undefined)
  /\ Len(DeployCalls) > 0
  /\ pc = "done"

\* create threw and deploy was not called
C30_WitnessThrown ==
  /\ createResult = Thrown
  /\ Issued("resourceGroups.createOrUpdate")
  /\ pc = "done"

\* C23: a callback handed to setTimeout is never cancelled: it stays
\* outstanding until it runs, and a pass of the history effect that sees 202
\* for a pair adds a callback to those still outstanding for the pair, so
\* that two or more callbacks for one (bot, target) can be outstanding.
C23_TimersNeverCancelled ==
  [][/\ \/ /\ Len(timers') >= Len(timers)
           /\ SubSeq(timers', 1, Len(timers)) = timers
        \/ /\ timers # <<>>
           /\ timers' = Tail(timers)
           /\ statusFetches'[<<Head(timers).bot, Head(timers).target>>]
                = statusFetches[<<Head(timers).bot, Head(timers).target>>] + 1
     /\ EffectRuns =>
          \A pair \in Pairs :
            Observes(pair, {202}) /\ TimersFor(timers, pair) >= 1
              => TimersFor(timers', pair) = TimersFor(timers, pair) + 1]_vars

\* two callbacks are outstanding for one pair whose status is still 202
C23_Witness ==
  /\ TimersFor(timers, <<"b1", "t1">>) >= 2
  /\ Observes(<<"b1", "t1">>, {202})
  /\ statusFetches[<<"b1", "t1">>] = 0

\* the completion cards a step adds
NewCompletions ==
  {notifications'[i].bot : i \in {j \in DOMAIN notifications' :
                                    j > Len(notifications) /\ notifications'[j].card = "published"}}

\* C21: after publish is called for a bot a completion notification for it
\* is added only for a terminal status that follows the pending status of
\* that publish: never for a terminal entry that was at the head of the
\* history before the publish, such as one that was there when the page was
\* mounted.
C21_CompletionFollowsPending ==
  [][EffectRuns =>
       \A i \in DOMAIN selectedBots :
         LET pair == <<selectedBots[i].id, selectedBots[i].publishTarget>>
         IN (selectedBots[i].id \in NewCompletions /\ pair \in Pairs
               /\ Len(botPublishHistoryList[pair]) > 0)
              => botPublishHistoryList[pair][1].time > 0]_vars

\* C22: the poller keeps calling the status check until a terminal status is
\* seen: while a bot is selected and the head of the history of its target is
\* 202 a further re-check is always on its way. Once the effects of the last
\* render have run and before any re-check was issued for the pair, that
\* re-check can only come from a callback that is outstanding for the pair.
C22_PendingIsRechecked ==
  \A pair \in Pairs :
    (Observes(pair, {202}) /\ ~effectPending /\ statusFetches[pair] = 0)
      => TimersFor(timers, pair) >= 1

\* the writes of the deployment settings
SettingsWrites ==
  {i \in DOMAIN calls : calls[i].op = "fs.writeJson" /\ calls[i].path = "deploymentSettingsPath"}

\* C31: the endpointKey deploy writes into the luis section of the deployment
\* settings is the luis.endpointKey of the settings file when no
\* luisAuthoringKey was passed, and the empty string when one was passed,
\* whatever the settings file holds.
C31_EndpointKeyWritten ==
  \A w \in SettingsWrites :
    LET written == Member(Get(calls[w].data, "luis"), "endpointKey")
        ofSettings == Member(Get(settingsFile.doc, "luis"), "endpointKey")
    IN IF args.luisAuthoringKey # "" THEN written = JsStr("") ELSE written = ofSettings

\* a key was passed, the settings file holds an endpoint key, and the empty
\* string was written
C31_Witness ==
  /\ SettingsWrites # {}
  /\ args.luisAuthoringKey = "key1"
  /\ settingsFile.exists
  /\ Member(Get(settingsFile.doc, "luis"), "endpointKey") = JsStr("ekey")
  /\ Member(Get(deploymentSettingsFile.doc, "luis"), "endpointKey") = JsStr("")

\* no key was passed and the endpoint key of the settings file was written
C31_WitnessFromSettings ==
  /\ SettingsWrites # {}
  /\ args.luisAuthoringKey = ""
  /\ Member(Get(deploymentSettingsFile.doc, "luis"), "endpointKey") = JsStr("ekey")

\* C32: when deploy is called without a language-model key and region and
\* the settings file has no luis section, the language-model sub-flow is
\* skipped and deploy goes on to pack the publish folder and to upload the
\* archive: once the settings file has been read, deploy does not end before
\* the publish folder is packed.
C32_NoLuisStillUploads ==
  (/\ args.luisAuthoringKey = "" /\ args.luisAuthoringRegion = ""
   /\ settingsFile.exists /\ "luis" \notin DOMAIN settingsFile.doc
   /\ Issued("fs.readJSON")
   /\ pc = "done")
    => /\ LuisCalls = <<>>
       /\ Issued("zipDirectory")
       /\ caught \in {"", "zipDirectory", "updatePublishingUser", "readFile", "zipdeploy"}

\* the bots whose flag is set and that a pass of the effect sees terminal
SeenTerminal ==
  {id \in Bots : showNotifications[id]
                 /\ \E pair \in Pairs : pair[1] = id /\ Observes(pair, {200, 500})}

\* the cards a step adds
AddedCards == {notifications'[j] : j \in (Len(notifications) + 1)..Len(notifications')}

\* the pending cards that no deleteNotification has been called for
PendingCards ==
  {notifications[i] : i \in {j \in DOMAIN notifications :
      /\ notifications[j].card = "pending"
      /\ \A k \in DOMAIN notifications :
           notifications[k].card = "published" => notifications[k].deleted # notifications[j].id}}

\* C33: the pending card added at the start of a publish is deleted by the
\* first pass of the history effect that sees a bot of its batch whose flag
\* is set with a terminal status, whatever the status of the other bots of
\* the batch; it stays only while no bot of the batch has been seen terminal.
C33_PendingDeletedOnFirstTerminal ==
  [][EffectRuns =>
       \A pending \in PendingCards :
         pending.bots \cap SeenTerminal # {}
           => \E card \in AddedCards : card.card = "published" /\ card.deleted = pending.id]_vars

====
